---- MODULE Spec2Model ----
(***************************************************************************)
(* TrajectoryTask of jsbgym_m (src/jsbgym_m/task_advanced.py) and          *)
(* reduce_reflex_angle_deg (src/jsbgym_m/utils.py) as a state machine.     *)
(*                                                                         *)
(* Numbers.  Positions and errors are whole feet/metres; the Euclidean     *)
(* norm is stored rounded down to a whole unit, which leaves every         *)
(* comparison with the whole-number thresholds of the task unchanged.      *)
(* Rewards are exact rationals <<numerator, denominator>>, denominator > 0.*)
(* The episode time is counted in half seconds, so that the product        *)
(* episode_time_s * step_frequency_hz is exact, as it is in binary         *)
(* floating point for such values.                                         *)
(*                                                                         *)
(* The simulator is an external collaborator: each integration step puts   *)
(* the aircraft at some position of a small set around the episode's       *)
(* anchor, and the shaping signal of the Assessor (a function of roll and  *)
(* sideslip, which no modelled code reads) is an input of the step.        *)
(***************************************************************************)
EXTENDS Integers, Sequences, FiniteSets, TLC

VARIABLES
    shaping,             \* the shaping_type the task was constructed with
    positive_rewards,    \* self.positive_rewards
    max_time_s,          \* self.max_time_s, in half seconds
    step_frequency_hz,   \* the step_frequency_hz given to the constructor
    episode_steps,       \* self.steps_left.max
    assessor,            \* self.assessor, or ValueError when construction failed
    phase,               \* "UNINITIALIZED", "RUNNING", "TERMINAL", or "FAILED"
    prev_phase,          \* the phase before the last call
    sim,                 \* the Simulation's property store
    init_ecef_position,  \* self.init_ecef_position
    op,                  \* the last call made on the task
    terminated,          \* what _is_terminal returned in the last step call
    low_quality,         \* state_out_of_bounds as evaluated in the last step call
    assessed,            \* the Reward the Assessor computed in the last step call
    returned,            \* the Reward the last step call returned and stored
    step_count,          \* step calls made since the last episode-start call
    first_start,         \* per-episode fields right after the first episode start
    angle_pc,            \* how far the angle normalisation has got
    angle_in,            \* the argument of reduce_reflex_angle_deg
    angle_out,           \* its result
    angle_twice          \* the result of applying it to its own result

configVars == <<shaping, positive_rewards, max_time_s, step_frequency_hz,
                episode_steps, assessor>>

taskVars == <<phase, prev_phase, sim, init_ecef_position, op, terminated,
              low_quality, assessed, returned, step_count, first_start>>

angleVars == <<angle_pc, angle_in, angle_out, angle_twice>>

vars == <<configVars, taskVars, angleVars>>

-----------------------------------------------------------------------------
(* Class constants of TrajectoryTask *)

TARGET_xPOSITION_FT == 2000
TARGET_yPOSITION_FT == -8000
TARGET_zPOSITION_FT == 0
ALTITUDE_SCALING_FT == 100
POSITION_SCALING_MT == 5000
MIN_STATE_QUALITY == 0
MAX_ALTITUDE_DEVIATION_FT == 1000
NAVIGATION_TOLERANCE == 50

(* One full turn, in degrees (utils.reduce_reflex_angle_deg) *)
FULL_TURN_DEG == 360
HALF_TURN_DEG == 180

-----------------------------------------------------------------------------
(* Bounds of the model *)

MaxEpisodeHalfSeconds == 3   \* longest episode_time_s, in half seconds
MaxStepHz == 3               \* highest step_frequency_hz
MaxOvershoot == 2            \* step calls allowed once steps_left is <= 0
MaxAngle == 400              \* angles range over -MaxAngle..MaxAngle

EpisodeTimes == {MaxEpisodeHalfSeconds - 1, MaxEpisodeHalfSeconds}
StepFrequencies == {1, MaxStepHz}

-----------------------------------------------------------------------------
(* Rationals *)

Abs(x) == IF x < 0 THEN -x ELSE x

Rat(n) == <<n, 1>>
RatLt(a, b) == a[1] * b[2] < b[1] * a[2]
RatEq(a, b) == a[1] * b[2] = b[1] * a[2]
RatAdd(a, b) == <<a[1] * b[2] + b[1] * a[2], a[2] * b[2]>>
RatDivInt(a, n) == <<a[1], a[2] * n>>

RECURSIVE RatSum(_)
RatSum(seq) ==
    IF seq = <<>> THEN Rat(0) ELSE RatAdd(Head(seq), RatSum(Tail(seq)))

RECURSIVE FloorSqrtIn(_, _, _)
FloorSqrtIn(s, lo, hi) ==
    \* the largest n in lo..hi with n * n <= s, given lo * lo <= s < (hi+1)^2
    IF lo = hi THEN lo
    ELSE LET mid == (lo + hi + 1) \div 2
         IN  IF mid * mid <= s THEN FloorSqrtIn(s, mid, hi)
             ELSE FloorSqrtIn(s, lo, mid - 1)

FloorSqrt(s) == FloorSqrtIn(s, 0, 20000)

-----------------------------------------------------------------------------
(* Construction: TrajectoryTask.__init__ and the Assessor it selects *)

Shapings ==
    {"STANDARD", "EXTRA", "EXTRA_SEQUENTIAL",
     "stage1", "stage2", "stage3", "stage4", "stage5",
     "stage6", "stage7", "stage8", "stage9", "stage10"}

\* math.ceil(episode_time_s * step_frequency_hz), the time in half seconds
EpisodeSteps(half_seconds, hz) == (half_seconds * hz + 1) \div 2

ValueError == [raised |-> "ValueError"]

AssessorImpl(base_components, shaping_components, positive) ==
    [base_components |-> base_components,
     shaping_components |-> shaping_components,
     positive_rewards |-> positive]

_make_base_reward_components ==
    << [name |-> "altitude_error", prop |-> "altitude_error_ft", target |-> 0,
        is_potential_based |-> FALSE, scaling_factor |-> ALTITUDE_SCALING_FT],
       [name |-> "position_error", prop |-> "position_error_mt", target |-> 0,
        is_potential_based |-> FALSE, scaling_factor |-> POSITION_SCALING_MT] >>

wings_level ==
    [name |-> "wings_level", prop |-> "roll_rad", target |-> 0,
     is_potential_based |-> TRUE]

no_sideslip ==
    [name |-> "no_sideslip", prop |-> "sideslip_deg", target |-> 0,
     is_potential_based |-> TRUE]

_select_assessor_no_raise(base_components, shaping_components, shape, positive) ==
    IF shape = "STANDARD"
    THEN AssessorImpl(base_components, shaping_components, positive)
    ELSE AssessorImpl(base_components, <<wings_level, no_sideslip>>, positive)

_select_assessor(base_components, shaping_components, shape, positive) ==
    IF shape = "STANDARD"
    THEN AssessorImpl(base_components, shaping_components, positive)
    ELSE LET potential_based_components == <<wings_level, no_sideslip>>
         IN  IF shape = "EXTRA"
             THEN AssessorImpl(base_components, potential_based_components,
                               positive)
             ELSE ValueError

make_assessor(shape, positive) ==
    LET base_components == _make_base_reward_components
        shaping_components == <<>>
    IN  _select_assessor(base_components, shaping_components, shape, positive)

-----------------------------------------------------------------------------
(* Rewards *)

RewardStub(agent_reward_value, assessment_reward_value) ==
    [agent_reward |-> agent_reward_value,
     assessment_reward |-> assessment_reward_value]

\* A reward component: 1 - scaling_factor / (scaling_factor + |error|)
ComponentValue(cmp, s) ==
    LET e == Abs(s[cmp.prop] - cmp.target)
    IN  <<e, cmp.scaling_factor + e>>

RECURSIVE ComponentValues(_, _)
ComponentValues(cmps, s) ==
    IF cmps = <<>> THEN <<>>
    ELSE <<ComponentValue(Head(cmps), s)>> \o ComponentValues(Tail(cmps), s)

\* The shaping signal, in halves: potential(now) - potential(prev)
ShapingSignals(a) == IF a.shaping_components = <<>> THEN {0} ELSE {-1, 1}

Assess(a, s, signal) ==
    LET base == ComponentValues(a.base_components, s)
        base_reward == RatDivInt(RatSum(base), Len(base))
        shaped == RatAdd(base_reward, <<signal, 2>>)
    IN  [agent_reward |-> IF a.positive_rewards THEN shaped
                          ELSE RatAdd(shaped, Rat(-1)),
         assessment_reward |-> base_reward]

_store_reward(reward, s) ==
    [s EXCEPT !.last_agent_reward = reward.agent_reward,
              !.last_assessment_reward = reward.assessment_reward]

-----------------------------------------------------------------------------
(* TrajectoryTask: the per-step update, the termination predicate, the      *)
(* terminal override and the episode-start hook                             *)

Norm(v) == FloorSqrt(v[1] * v[1] + v[2] * v[2])

_get_target_position_swapped(flag, iep) ==
    CASE flag = "x" -> TARGET_yPOSITION_FT + iep[1]
      [] flag = "y" -> TARGET_xPOSITION_FT + iep[2]
      [] flag = "z" -> TARGET_zPOSITION_FT + iep[3]

_get_target_position(flag, iep) ==
    CASE flag = "x" -> TARGET_xPOSITION_FT + iep[1]
      [] flag = "y" -> TARGET_yPOSITION_FT + iep[2]
      [] flag = "z" -> TARGET_zPOSITION_FT + iep[3]

_update_position_error(s) ==
    LET position == <<s.ecef_x_ft, s.ecef_y_ft>>
        target_position == <<s.target_Xposition, s.target_Yposition>>
        error_mt == Norm(<<position[1] - target_position[1],
                           position[2] - target_position[2]>>)
    IN  [s EXCEPT !.position_error_mt = error_mt]

_update_altitude_error(s, iep) ==
    LET z_position == s.ecef_z_ft
        target_z_ft == _get_target_position("z", iep)
        error_ft == z_position - target_z_ft
    IN  [s EXCEPT !.altitude_error_ft = error_ft]

_decrement_steps_left_by_two(s) == [s EXCEPT !.steps_left = @ - 2]

_decrement_steps_left(s) == [s EXCEPT !.steps_left = @ - 1]

_update_custom_properties(s, iep) ==
    _decrement_steps_left(_update_altitude_error(_update_position_error(s), iep))

_altitude_out_of_bounds_inclusive(s) ==
    Abs(s.altitude_error_ft) >= MAX_ALTITUDE_DEVIATION_FT

_altitude_out_of_bounds(s) ==
    LET altitude_error_ft == s.altitude_error_ft
    IN  Abs(altitude_error_ft) > MAX_ALTITUDE_DEVIATION_FT

_arrive_at_navigation_point_inclusive(s) ==
    s.position_error_mt <= NAVIGATION_TOLERANCE

_arrive_at_navigation_point(s) ==
    s.position_error_mt < NAVIGATION_TOLERANCE

state_out_of_bounds(s) ==
    LET state_quality == s.last_assessment_reward
    IN  RatLt(state_quality, Rat(MIN_STATE_QUALITY))

_is_terminal_late_time_limit(s) ==
    \/ s.steps_left < 0
    \/ state_out_of_bounds(s)
    \/ _altitude_out_of_bounds(s)
    \/ _arrive_at_navigation_point(s)

_is_terminal_no_time_limit(s) ==
    \/ state_out_of_bounds(s)
    \/ _altitude_out_of_bounds(s)
    \/ _arrive_at_navigation_point(s)

_is_terminal(s) ==
    LET terminal_step == s.steps_left <= 0
    IN  \/ terminal_step
        \/ state_out_of_bounds(s)
        \/ _altitude_out_of_bounds(s)
        \/ _arrive_at_navigation_point(s)

_get_out_of_bounds_reward_no_terminal_step(s) ==
    LET reward_scalar == Rat(s.steps_left * (-1))
    IN  RewardStub(reward_scalar, reward_scalar)

_get_out_of_bounds_reward(s) ==
    LET reward_scalar == Rat((1 + s.steps_left) * (-1))
    IN  RewardStub(reward_scalar, reward_scalar)

_reward_terminal_override_any_sign(reward, s, positive) ==
    IF _altitude_out_of_bounds(s)
    THEN _get_out_of_bounds_reward(s)
    ELSE reward

_reward_terminal_override(reward, s, positive) ==
    IF _altitude_out_of_bounds(s) /\ ~positive
    THEN _get_out_of_bounds_reward(s)
    ELSE reward

\* FlightTask._new_episode_init: the stored reward pair starts afresh
Flight_new_episode_init(s) == _store_reward(RewardStub(Rat(1), Rat(1)), s)

_new_episode_init_keep_steps(s, max_steps) ==
    LET s1 == Flight_new_episode_init(s)
        iep == <<s1.ecef_x_ft, s1.ecef_y_ft, s1.ecef_z_ft>>
        s3 == [s1 EXCEPT !.target_Xposition = _get_target_position("x", iep)]
        s4 == [s3 EXCEPT !.target_Yposition = _get_target_position("y", iep)]
    IN  [sim |-> s4, init_ecef_position |-> iep]

_new_episode_init(s, max_steps) ==
    LET s1 == Flight_new_episode_init(s)
        s2 == [s1 EXCEPT !.steps_left = max_steps]
        iep == <<s2.ecef_x_ft, s2.ecef_y_ft, s2.ecef_z_ft>>
        s3 == [s2 EXCEPT !.target_Xposition = _get_target_position("x", iep)]
        s4 == [s3 EXCEPT !.target_Yposition = _get_target_position("y", iep)]
    IN  [sim |-> s4, init_ecef_position |-> iep]

\* FlightTask.task_step after the simulator has integrated: update, judge,
\* assess, override on a terminal step, store
task_step(a, s, iep, positive, signal) ==
    LET s1 == _update_custom_properties(s, iep)
        is_terminal == _is_terminal(s1)
        reward == Assess(a, s1, signal)
        final == IF is_terminal
                 THEN _reward_terminal_override(reward, s1, positive)
                 ELSE reward
    IN  [sim |-> _store_reward(final, s1),
         terminated |-> is_terminal,
         low_quality |-> state_out_of_bounds(s1),
         assessed |-> reward,
         returned |-> final]

-----------------------------------------------------------------------------
(* utils.reduce_reflex_angle_deg *)

reduce_reflex_angle_deg_no_wrap(angle) == angle % FULL_TURN_DEG

reduce_reflex_angle_deg(angle) ==
    LET new_angle == angle % FULL_TURN_DEG
    IN  IF new_angle > HALF_TURN_DEG THEN new_angle - FULL_TURN_DEG
        ELSE new_angle

-----------------------------------------------------------------------------
(* The state machine *)

BlankSim ==
    [ecef_x_ft |-> 0, ecef_y_ft |-> 0, ecef_z_ft |-> 0,
     steps_left |-> 0,
     target_Xposition |-> 0, target_Yposition |-> 0,
     position_error_mt |-> 0, altitude_error_ft |-> 0,
     last_agent_reward |-> Rat(0), last_assessment_reward |-> Rat(0)]

\* Where the simulator puts the aircraft when an episode is initialised
InitialPositions == {<<100, 200, 300>>, <<-500, 700, 5000>>}

\* Where an integration step may put the aircraft, relative to the target:
\* back at the anchor, on the target, and around the navigation tolerance
HorizontalOffsets ==
    {<<-TARGET_xPOSITION_FT, -TARGET_yPOSITION_FT>>, <<0, 0>>, <<30, 40>>,
     <<NAVIGATION_TOLERANCE - 1, 0>>, <<NAVIGATION_TOLERANCE, 0>>}

\* ... and around the altitude envelope
VerticalOffsets ==
    {0, MAX_ALTITUDE_DEVIATION_FT, MAX_ALTITUDE_DEVIATION_FT + 1,
     -MAX_ALTITUDE_DEVIATION_FT, -(MAX_ALTITUDE_DEVIATION_FT + 1)}

\* The per-episode fields of the task
PerEpisode(s, iep) ==
    [steps_left |-> s.steps_left,
     target_Xposition |-> s.target_Xposition,
     target_Yposition |-> s.target_Yposition,
     init_ecef_position |-> iep,
     position_error_mt |-> s.position_error_mt,
     altitude_error_ft |-> s.altitude_error_ft]

NoReward == RewardStub(Rat(0), Rat(0))

Construct(shape, positive, half_seconds, hz) ==
    /\ shaping = shape
    /\ positive_rewards = positive
    /\ max_time_s = half_seconds
    /\ step_frequency_hz = hz
    /\ episode_steps = EpisodeSteps(half_seconds, hz)
    /\ assessor = make_assessor(shape, positive)
    /\ phase = IF assessor = ValueError THEN "FAILED" ELSE "UNINITIALIZED"
    /\ prev_phase = phase
    /\ sim = BlankSim
    /\ init_ecef_position = <<>>
    /\ op = "construct"
    /\ terminated = FALSE
    /\ low_quality = FALSE
    /\ assessed = NoReward
    /\ returned = NoReward
    /\ step_count = 0
    /\ first_start = [set |-> FALSE, fields |-> PerEpisode(BlankSim, <<>>)]

Init ==
    /\ \E shape \in Shapings, positive \in BOOLEAN,
          half_seconds \in EpisodeTimes, hz \in StepFrequencies :
            Construct(shape, positive, half_seconds, hz)
    /\ angle_pc = "idle"
    /\ angle_in = 0
    /\ angle_out = 0
    /\ angle_twice = 0

\* The environment initialises the simulator and calls the episode-start hook
NewEpisode ==
    /\ phase # "FAILED"
    /\ \E p \in InitialPositions :
        LET s0 == [sim EXCEPT !.ecef_x_ft = p[1], !.ecef_y_ft = p[2],
                              !.ecef_z_ft = p[3]]
        IN  \E r \in {_new_episode_init(s0, episode_steps)} :
            /\ sim' = r.sim
            /\ init_ecef_position' = r.init_ecef_position
            /\ first_start' =
                 IF first_start.set THEN first_start
                 ELSE [set |-> TRUE,
                       fields |-> PerEpisode(r.sim, r.init_ecef_position)]
    /\ phase' = "RUNNING"
    /\ prev_phase' = phase
    /\ op' = "new_episode"
    /\ terminated' = FALSE
    /\ low_quality' = FALSE
    /\ assessed' = NoReward
    /\ returned' = NoReward
    /\ step_count' = 0
    /\ UNCHANGED <<configVars, angleVars>>

\* The simulator integrates one step and the task's step entry point runs
Step ==
    /\ phase \in {"RUNNING", "TERMINAL"}
    /\ sim.steps_left > -MaxOvershoot
    /\ \E d \in HorizontalOffsets, dz \in VerticalOffsets,
          signal \in ShapingSignals(assessor) :
        LET s0 == [sim EXCEPT
                     !.ecef_x_ft = sim.target_Xposition + d[1],
                     !.ecef_y_ft = sim.target_Yposition + d[2],
                     !.ecef_z_ft = init_ecef_position[3] + dz]
        IN  \E r \in {task_step(assessor, s0, init_ecef_position,
                              positive_rewards, signal)} :
            /\ sim' = r.sim
            /\ terminated' = r.terminated
            /\ low_quality' = r.low_quality
            /\ assessed' = r.assessed
            /\ returned' = r.returned
            /\ phase' = IF r.terminated \/ phase = "TERMINAL"
                        THEN "TERMINAL" ELSE "RUNNING"
    /\ prev_phase' = phase
    /\ op' = "step"
    /\ step_count' = step_count + 1
    /\ UNCHANGED <<configVars, init_ecef_position, first_start, angleVars>>

Next == NewEpisode \/ Step

Spec == Init /\ [][Next]_vars

-----------------------------------------------------------------------------
(* The angle normalisation on its own: the task is constructed and idle *)

Angles == -MaxAngle .. MaxAngle

InitAngle ==
    /\ Construct("STANDARD", TRUE, MaxEpisodeHalfSeconds, MaxStepHz)
    /\ angle_pc = "input"
    /\ angle_in \in Angles
    /\ angle_out = 0
    /\ angle_twice = 0

Reduce ==
    /\ angle_pc = "input"
    /\ angle_out' = reduce_reflex_angle_deg(angle_in)
    /\ angle_pc' = "reduced"
    /\ UNCHANGED <<configVars, taskVars, angle_in, angle_twice>>

ReduceAgain ==
    /\ angle_pc = "reduced"
    /\ angle_twice' = reduce_reflex_angle_deg(angle_out)
    /\ angle_pc' = "twice"
    /\ UNCHANGED <<configVars, taskVars, angle_in, angle_out>>

NextAngle == Reduce \/ ReduceAgain

SpecAngle == InitAngle /\ [][NextAngle]_vars

-----------------------------------------------------------------------------
(* Properties *)

IsStep == op' = "step" /\ vars' # vars
IsNewEpisode == op' = "new_episode" /\ vars' # vars

\* The rational q is below the whole number n
BelowInt(q, n) == q[1] < n * q[2]

\* The time budget, computed on its own: the least n with
\* n >= max_time_s * step_frequency_hz, the time being in half seconds
Budget ==
    CHOOSE n \in 0 .. max_time_s * step_frequency_hz :
        /\ 2 * n >= max_time_s * step_frequency_hz
        /\ 2 * (n - 1) < max_time_s * step_frequency_hz

\* C1, for a step call: the predicate returned true if and only if one of
\* the four triggers held on the properties it read: steps_left <= 0, the
\* assessment reward stored by the previous call < 0, |altitude error| >
\* 1000, position error < 50.
C1_StepIff ==
    IsStep =>
        /\ low_quality' = BelowInt(sim.last_assessment_reward, 0)
        /\ terminated' = ( \/ sim'.steps_left <= 0
                           \/ BelowInt(sim.last_assessment_reward, 0)
                           \/ Abs(sim'.altitude_error_ft) > 1000
                           \/ sim'.position_error_mt < 50 )

\* C1, at the boundaries: a position error of exactly 50 and an altitude
\* error of exactly 1000 or -1000 do not terminate by themselves, 49 and
\* 1001 or -1001 do.
C1_Boundaries ==
    op = "step" =>
        /\ ( /\ sim.position_error_mt >= 50
             /\ Abs(sim.altitude_error_ft) <= 1000
             /\ sim.steps_left > 0
             /\ ~low_quality ) => ~terminated
        /\ sim.position_error_mt <= 49 => terminated
        /\ Abs(sim.altitude_error_ft) >= 1001 => terminated

\* C1: _is_terminal is true if and only if at least one of the four
\* triggers holds (steps_left <= 0, last assessment reward < 0, |altitude
\* error| > 1000, position error < 50), with strict comparisons at 50 and
\* at 1000.
C1_TerminalIffTrigger == []C1_Boundaries /\ [][C1_StepIff]_vars

\* C1 witness: a step call left the position error at exactly 50 and the
\* altitude error at exactly -1000, and the predicate returned false.
C1_Witness ==
    /\ op = "step"
    /\ sim.position_error_mt = 50
    /\ sim.altitude_error_ft = -1000
    /\ ~terminated

\* The synthetic penalty -(1 + steps_left) on both fields of r
IsPenalty(r, steps_left) ==
    /\ RatEq(r.agent_reward, Rat(-(1 + steps_left)))
    /\ RatEq(r.assessment_reward, Rat(-(1 + steps_left)))

\* C2: a step call returns and stores -(1 + steps_left) on agent_reward and
\* assessment_reward exactly when the altitude envelope is violated
\* (|altitude error| > 1000, which terminates the episode) and
\* positive_rewards is false; otherwise it returns and stores the
\* Assessor's reward unchanged.
C2_OverrideExactly ==
    op = "step" =>
        /\ sim.last_agent_reward = returned.agent_reward
        /\ sim.last_assessment_reward = returned.assessment_reward
        /\ IF Abs(sim.altitude_error_ft) > 1000 /\ ~positive_rewards
           THEN terminated /\ IsPenalty(returned, sim.steps_left)
           ELSE returned = assessed

\* C2 witness: the override fired, and the reward returned is not the
\* Assessor's.
C2_Witness ==
    /\ op = "step"
    /\ terminated
    /\ Abs(sim.altitude_error_ft) > 1000
    /\ ~positive_rewards
    /\ returned # assessed
    /\ IsPenalty(returned, sim.steps_left)

\* C3: every step call decreases steps_left by exactly 1, and every
\* episode-start call sets it to ceil(episode_time_s * step_frequency_hz),
\* whatever its value was and however the previous episode ended.
C3_StepsLeft ==
    [][ /\ IsStep => sim'.steps_left = sim.steps_left - 1
        /\ IsNewEpisode => sim'.steps_left = Budget ]_vars

\* C3 witness: an episode has just started with a full budget, after an
\* episode whose last step call ended it by reaching the navigation point
\* (the position error it left is still in the store).
C3_Witness ==
    /\ op = "new_episode"
    /\ prev_phase = "TERMINAL"
    /\ sim.position_error_mt < 50
    /\ sim.steps_left = Budget
    /\ Budget > 1

OtherTrigger ==
    \/ low_quality
    \/ Abs(sim.altitude_error_ft) > 1000
    \/ sim.position_error_mt < 50

\* C4: with N = ceil(episode_time_s * step_frequency_hz) (300 for 60 s at
\* 5 Hz), steps_left is N at episode start; the predicate is false after
\* each of the first N-1 step calls unless another trigger fires, and true
\* after the N-th step call (and any later one).
C4_TimeBudget ==
    /\ EpisodeSteps(120, 5) = 300
    /\ op = "new_episode" => sim.steps_left = Budget
    /\ op = "step" =>
        /\ sim.steps_left = Budget - step_count
        /\ (step_count < Budget /\ ~OtherTrigger) => ~terminated
        /\ step_count >= Budget => terminated

\* C4 witness: the N-th step call of an episode that was still running,
\* with no other trigger, and the predicate returned true.
C4_Witness ==
    /\ op = "step"
    /\ Budget > 1
    /\ step_count = Budget
    /\ prev_phase = "RUNNING"
    /\ ~OtherTrigger
    /\ terminated

ComponentNames(cmps) == [i \in DOMAIN cmps |-> cmps[i].name]

AllPotentialBased(cmps) == \A i \in DOMAIN cmps : cmps[i].is_potential_based

NonePotentialBased(cmps) == \A i \in DOMAIN cmps : ~cmps[i].is_potential_based

\* C5: STANDARD yields the base components and no shaping components; EXTRA
\* yields the same base components plus exactly the two potential-based
\* components wings_level and no_sideslip; every other shaping value
\* (EXTRA_SEQUENTIAL, stage1..stage10) fails construction with an error, no
\* Assessor is returned and no episode is ever run on the task.
C5_AssessorSelection ==
    IF shaping \in {"STANDARD", "EXTRA"}
    THEN /\ phase # "FAILED"
         /\ DOMAIN assessor =
              {"base_components", "shaping_components", "positive_rewards"}
         /\ ComponentNames(assessor.base_components) =
              <<"altitude_error", "position_error">>
         /\ NonePotentialBased(assessor.base_components)
         /\ assessor.positive_rewards = positive_rewards
         /\ shaping = "STANDARD" => assessor.shaping_components = <<>>
         /\ shaping = "EXTRA" =>
              /\ ComponentNames(assessor.shaping_components) =
                   <<"wings_level", "no_sideslip">>
              /\ AllPotentialBased(assessor.shaping_components)
    ELSE /\ assessor = [raised |-> "ValueError"]
         /\ phase = "FAILED"
         /\ op = "construct"

\* C5 witness: construction with a stage value of the environment-ID map
\* has failed.
C5_Witness ==
    /\ shaping = "stage10"
    /\ phase = "FAILED"
    /\ assessor = [raised |-> "ValueError"]

\* C6, in every state of an episode: the target is the anchor plus
\* (2000, -8000, 0).
C6_TargetIsAnchorPlusOffset ==
    phase \in {"RUNNING", "TERMINAL"} =>
        /\ sim.target_Xposition = init_ecef_position[1] + 2000
        /\ sim.target_Yposition = init_ecef_position[2] - 8000
        /\ _get_target_position("z", init_ecef_position) =
             init_ecef_position[3]
        /\ init_ecef_position = <<100, 200, 300>> =>
             /\ sim.target_Xposition = 2100
             /\ sim.target_Yposition = -7800
             /\ _get_target_position("z", init_ecef_position) = 300

\* C6, for each call: the episode-start call captures the aircraft position
\* of that moment as the anchor; a step call leaves the anchor and the
\* target unchanged.
C6_Calls ==
    /\ IsNewEpisode =>
         init_ecef_position' =
           <<sim'.ecef_x_ft, sim'.ecef_y_ft, sim'.ecef_z_ft>>
    /\ IsStep =>
         /\ init_ecef_position' = init_ecef_position
         /\ sim'.target_Xposition = sim.target_Xposition
         /\ sim'.target_Yposition = sim.target_Yposition

\* C6: at every episode start the target is the aircraft position captured
\* at that moment plus (2000, -8000, 0) (anchor (100, 200, 300) gives
\* target (2100, -7800, 300)), and the target and the anchor are unchanged
\* by every step call of the episode, wherever the aircraft goes.
C6_TargetStable == []C6_TargetIsAnchorPlusOffset /\ [][C6_Calls]_vars

\* C6 witness: after two step calls of an episode anchored at
\* (100, 200, 300) the aircraft is elsewhere and the target is
\* (2100, -7800, 300).
C6_Witness ==
    /\ op = "step"
    /\ step_count = 2
    /\ init_ecef_position = <<100, 200, 300>>
    /\ <<sim.ecef_x_ft, sim.ecef_y_ft, sim.ecef_z_ft>> = <<2130, -7760, 1301>>
    /\ <<sim.target_Xposition, sim.target_Yposition>> = <<2100, -7800>>

\* C7 as claimed: after an episode-start call all per-episode fields,
\* the position error and the altitude error included, are what they were
\* after the first episode-start call from the same aircraft position:
\* nothing of the episodes in between shows.
C7_Original ==
    ( /\ op = "new_episode"
      /\ first_start.set
      /\ init_ecef_position = first_start.fields.init_ecef_position )
    => PerEpisode(sim, init_ecef_position) = first_start.fields

\* C7 amended, in the state after an episode-start call: steps_left, the
\* target and the anchor depend on the configuration and the captured
\* position only.
C7_FreshAfterStart ==
    op = "new_episode" =>
        /\ sim.steps_left = Budget
        /\ init_ecef_position = <<sim.ecef_x_ft, sim.ecef_y_ft, sim.ecef_z_ft>>
        /\ sim.target_Xposition = sim.ecef_x_ft + 2000
        /\ sim.target_Yposition = sim.ecef_y_ft - 8000
        /\ init_ecef_position = first_start.fields.init_ecef_position =>
             /\ sim.steps_left = first_start.fields.steps_left
             /\ sim.target_Xposition = first_start.fields.target_Xposition
             /\ sim.target_Yposition = first_start.fields.target_Yposition

\* C7 amended, for each call: the episode-start call does not write the
\* position error and the altitude error; a step call recomputes them from
\* the position, the target and the anchor of that moment.
C7_Calls ==
    /\ IsNewEpisode =>
         /\ sim'.position_error_mt = sim.position_error_mt
         /\ sim'.altitude_error_ft = sim.altitude_error_ft
    /\ IsStep =>
         LET dx == sim'.ecef_x_ft - sim'.target_Xposition
             dy == sim'.ecef_y_ft - sim'.target_Yposition
             e == sim'.position_error_mt
         IN  /\ e >= 0
             /\ e * e <= dx * dx + dy * dy
             /\ (e + 1) * (e + 1) > dx * dx + dy * dy
             /\ sim'.altitude_error_ft =
                  sim'.ecef_z_ft - init_ecef_position'[3]

\* C7 amended: steps_left, the target position and init_ecef_position are
\* re-initialised by the episode-start hook from the configuration and the
\* aircraft position of that moment; the position error and the altitude
\* error are not written by that hook and keep the values of the last step
\* call until the first per-step update of the new episode recomputes them.
C7_Amended == []C7_FreshAfterStart /\ [][C7_Calls]_vars

\* C7 witness: an episode has started from the same position as the first
\* one, and the position error in the store is the one the previous episode
\* left, not the one of the first start.
C7_Witness ==
    /\ op = "new_episode"
    /\ first_start.set
    /\ init_ecef_position = first_start.fields.init_ecef_position
    /\ sim.steps_left = first_start.fields.steps_left
    /\ sim.position_error_mt # first_start.fields.position_error_mt

\* C8: when the altitude override fires at the k-th step call of an
\* episode of N steps (1 <= k <= N, positive_rewards false), the reward on
\* both fields is -(N - k + 1): -1 for the terminal step and for each of
\* the N - k steps remaining; so its magnitude is at least 1 and at most N,
\* and one more for each step the crash comes earlier.
C8_PenaltyForRemainingSteps ==
    ( /\ op = "step"
      /\ Abs(sim.altitude_error_ft) > 1000
      /\ ~positive_rewards
      /\ 1 <= step_count
      /\ step_count <= Budget )
    => /\ returned.agent_reward = <<-(Budget - step_count + 1), 1>>
       /\ returned.assessment_reward = <<-(Budget - step_count + 1), 1>>
       /\ -returned.agent_reward[1] \in 1 .. Budget
       /\ -returned.agent_reward[1] + (step_count - 1) = Budget

\* C8 witness: the override fired at the first step call of an episode of
\* more than two steps.
C8_Witness ==
    /\ op = "step"
    /\ step_count = 1
    /\ Budget > 2
    /\ Abs(sim.altitude_error_ft) > 1000
    /\ ~positive_rewards
    /\ returned.agent_reward = <<-Budget, 1>>

\* C9 as claimed: for either value of positive_rewards the stored
\* assessment reward is never below 0 and the state-quality trigger never
\* holds when the predicate is evaluated.
C9_Original ==
    /\ ~BelowInt(sim.last_assessment_reward, 0)
    /\ ~low_quality

\* C9 amended: the assessment reward in the store is never below 0 while
\* an episode is running, nor ever when positive_rewards is true; with
\* positive_rewards false the altitude override stores -(1 + steps_left)
\* on the terminal step, so the state-quality trigger holds only in a step
\* call made after the episode has already terminated.
C9_Amended ==
    /\ BelowInt(sim.last_assessment_reward, 0) =>
         /\ ~positive_rewards
         /\ op = "step"
         /\ phase = "TERMINAL"
         /\ Abs(sim.altitude_error_ft) > 1000
         /\ IsPenalty(returned, sim.steps_left)
    /\ low_quality =>
         /\ ~positive_rewards
         /\ op = "step"
         /\ prev_phase = "TERMINAL"
    /\ phase = "RUNNING" => ~BelowInt(sim.last_assessment_reward, 0)

\* C9 witness: a step call made after the altitude override ended the
\* episode read a negative assessment reward.
C9_Witness ==
    /\ op = "step"
    /\ low_quality
    /\ prev_phase = "TERMINAL"
    /\ ~positive_rewards

\* C10: for every integer angle the result r of reduce_reflex_angle_deg
\* satisfies -179 <= r <= 180 and is congruent to the angle modulo 360;
\* applying the function to its result changes nothing.
C10_ReducedAngle ==
    /\ angle_pc \in {"reduced", "twice"} =>
         /\ -179 <= angle_out
         /\ angle_out <= 180
         /\ (angle_out - angle_in) % 360 = 0
    /\ angle_pc = "twice" => angle_twice = angle_out

\* C10 witness: a negative angle beyond one full turn has been reduced
\* twice.
C10_Witness ==
    /\ angle_pc = "twice"
    /\ angle_in = -395
    /\ angle_out = -35
    /\ angle_twice = -35

\* C11: in every state reached by episode-start and step calls in which no
\* step call was made after the termination predicate had returned true,
\* the steps_left value in the store lies within the bounds [0, N] of its
\* BoundedProperty, N = ceil(episode_time_s * step_frequency_hz); an
\* episode that is still running has at least one step left, so the
\* decrement of its next step call writes no negative value.
C11_StepsLeftWithinBounds ==
    /\ (op = "step" => prev_phase = "RUNNING") =>
         /\ 0 <= sim.steps_left
         /\ sim.steps_left <= Budget
         /\ Budget = episode_steps
    /\ phase = "RUNNING" => sim.steps_left >= 1

\* C11 witness: the last step call of the time budget, made while the
\* episode was running, wrote 0.
C11_Witness ==
    /\ op = "step"
    /\ prev_phase = "RUNNING"
    /\ Budget > 1
    /\ step_count = Budget
    /\ sim.steps_left = 0
    /\ terminated

====
